---- MODULE Spec2Model ----
(***************************************************************************)
(* Verification model of the continuous-subspace constraint-and-search     *)
(* engine of baybe:                                                        *)
(*   src/baybe/constraints/continuous.py   linear / cardinality constraints*)
(*   src/baybe/parameters/utils.py         activate_parameter              *)
(*   src/baybe/recommenders/pure/bayesian/botorch.py   BotorchRecommender  *)
(*                                                                         *)
(* Floats are modelled on an integer grid (1.0 is 1).  Parameter names are *)
(* strings.  Python lists and tuples are sequences; Python (0-based)       *)
(* positions are kept 0-based wherever the code exposes them.              *)
(***************************************************************************)
EXTENDS Integers, Sequences, FiniteSets, TLC

(***************************************************************************)
(* Bounds of the model.                                                    *)
(***************************************************************************)
\* largest number of parameters of a cardinality constraint
MaxCardParams == 4
\* largest batch_size handed to sample_inactive_parameters
MaxSamples == 2

Names == <<"x_1", "x_2", "x_3", "x_4", "x_5", "x_6">>

\* Optional values: None is the empty sequence, a present value v is <<v>>
None == <<>>
Some(v) == <<v>>

(***************************************************************************)
(* Python / library helpers.                                               *)
(***************************************************************************)
\* range(lo, hi) as a sequence
RECURSIVE range(_, _)
range(lo, hi) ==
    IF lo >= hi THEN <<>> ELSE <<lo>> \o range(lo + 1, hi)

\* sum(...) of a sequence of integers
RECURSIVE SumSeq(_)
SumSeq(s) ==
    IF s = <<>> THEN 0 ELSE Head(s) + SumSeq(Tail(s))

\* set(sequence)
ToSet(s) == {s[i] : i \in 1..Len(s)}

\* math.comb(n, k): n! / (k! (n-k)!), and 0 when k > n
RECURSIVE comb(_, _)
comb(n, k) ==
    IF k > n THEN 0
    ELSE IF k = 0 THEN 1
    ELSE (comb(n - 1, k - 1) * n) \div k

\* [f(x)] \o rest for every x of a sequence of tuples: prepend e to each
PrependAll(e, tuples) == [i \in 1..Len(tuples) |-> <<e>> \o tuples[i]]

\* itertools.combinations(iterable, r): the r-length tuples of elements taken
\* by increasing position, emitted in lexicographic order of the positions.
RECURSIVE combinations(_, _)
combinations(iterable, r) ==
    IF r = 0 THEN << <<>> >>
    ELSE IF Len(iterable) < r THEN <<>>
    ELSE PrependAll(Head(iterable), combinations(Tail(iterable), r - 1))
         \o combinations(Tail(iterable), r)

\* concatenation of a sequence of sequences (yield from, one after the other)
RECURSIVE Chain(_)
Chain(ss) ==
    IF ss = <<>> THEN <<>> ELSE Head(ss) \o Chain(Tail(ss))

VARIABLES
    \* ---- BotorchRecommender: the object's fields and one recommend call
    sequential_continuous,  \* field of the recommender
    is_mc,              \* self.acquisition_function.is_mc
    pc,                 \* position of the call: "idle", "sampling", "enumerating",
                        \* "done", "error"
    path,               \* "discrete", "continuous" or "hybrid" ("none" before)
    batch_size,         \* argument of the call
    subspace,           \* argument of the call: the continuous subspace
    candidates_comp,    \* argument of the call: the discrete candidates
    todo,               \* configurations the enumerating loop has not reached yet
    samples_left,       \* iterations the sampling loop has not made yet
    n_calls,            \* calls of the external optimizer made by the call
    acqf_values_all,    \* local list of _recommend_continuous
    points_all,         \* local list of _recommend_continuous
    optimizer_call,     \* keyword arguments of the last optimize_acqf call
    rec,                \* the returned dataframe, or None
    error,              \* the raised exception, or "none"
    peaks,              \* non-zero acquisition values reported so far
    call_inactive_parameters,   \* inactive_parameters of the last call of
                        \* _recommend_continuous_with_inactive_parameters that
                        \* reached the optimizer, or None
    returned_points,    \* points returned by optimize_acqf_discrete / _mixed, or None
    caller_candidates,  \* the caller's candidate table object, as the call left it
    \* ---- ContinuousLinearConstraint under test and the last call on it
    lin_args,           \* arguments of the last constructor call
    lin,                \* the constructed constraint object, or None
    lin_error,          \* exception raised by the last call, or "none"
    botorch_args,       \* arguments of the last to_botorch call
    botorch_out,        \* the triple to_botorch returned, or None
    drop_args,          \* self and parameter_names of the last _drop_parameters call
    drop_out,           \* the constraint _drop_parameters returned, or None
    \* ---- one call of _recommend_continuous_with_inactive_parameters
    _subspace_continuous,   \* argument: the continuous subspace
    _inactive_parameters,   \* argument: the inactive parameters, or None
    _points,            \* the point the optimizer returned, or None
    helper_pc,          \* "idle", "solved" or the exception raised
    \* ---- ContinuousCardinalityConstraint under test and the last call on it
    constraint,         \* the constraint object (parameters, min/max cardinality)
    card_op,            \* which method has returned: "none", "combinations", "sample"
    yielded,            \* list(inactive_parameter_combinations())
    batch_arg,          \* batch_size argument of sample_inactive_parameters
    probabilities,      \* local of sample_inactive_parameters: weight per cardinality
    n_active_params,    \* local of sample_inactive_parameters: the drawn active counts
    inactive_params,    \* return value of sample_inactive_parameters
    iterators,          \* the generators inactive_parameter_combinations() returned:
                        \* the items each has yielded, and whether it is exhausted
    relative_threshold, \* field of the cardinality constraint, a fraction num/den
    threshold_arg,      \* the parameter handed to the last get_threshold call
    threshold_out,      \* the Interval get_threshold returned, or None
    threshold_error,    \* exception raised by get_threshold, or "none"
    \* ---- activate_parameter
    activate_arg,       \* the parameter handed to activate_parameter, or None
    activated_parameter,          \* the parameter it returned, or None
    activate_error,     \* the exception it raised, or "none"
    reactivated,        \* outcome of activating the returned parameter again
    mirror_activated    \* outcome of activating the mirrored parameter, or None

cardVars == <<constraint, card_op, yielded, batch_arg, probabilities,
              n_active_params, inactive_params, iterators>>

linVars == <<lin_args, lin, lin_error, botorch_args, botorch_out, drop_args,
            drop_out>>

recVars == <<sequential_continuous, is_mc, pc, path, batch_size, subspace,
             candidates_comp, todo, samples_left, n_calls, acqf_values_all,
             points_all, optimizer_call, rec, error, peaks,
             call_inactive_parameters, returned_points, caller_candidates>>

helperVars == <<_subspace_continuous, _inactive_parameters, _points, helper_pc>>

thresholdVars == <<relative_threshold, threshold_arg, threshold_out, threshold_error>>

activateVars == <<activate_arg, activated_parameter, activate_error, reactivated,
                  mirror_activated>>

\* the variables of the components an action does not belong to
notRecVars == <<linVars, cardVars, helperVars, thresholdVars, activateVars>>
notLinVars == <<recVars, cardVars, helperVars, thresholdVars, activateVars>>
notCardVars == <<recVars, linVars, helperVars, thresholdVars, activateVars>>
notHelperVars == <<recVars, linVars, cardVars, thresholdVars, activateVars>>
notThresholdVars == <<recVars, linVars, cardVars, helperVars, activateVars>>
notActivateVars == <<recVars, linVars, cardVars, helperVars, thresholdVars>>

vars == <<sequential_continuous, is_mc, pc, path, batch_size, subspace,
          candidates_comp, todo, samples_left, n_calls, acqf_values_all,
          points_all, optimizer_call, rec, error, peaks,
          call_inactive_parameters, returned_points, caller_candidates,
          lin_args, lin, lin_error, botorch_args, botorch_out, drop_args, drop_out,
          _subspace_continuous, _inactive_parameters, _points, helper_pc,
          constraint, card_op, yielded, batch_arg, probabilities,
          n_active_params, inactive_params, iterators,
          relative_threshold, threshold_arg, threshold_out, threshold_error,
          activate_arg, activated_parameter, activate_error, reactivated,
          mirror_activated>>

(***************************************************************************)
(* ContinuousLinearConstraint                                              *)
(***************************************************************************)
\* largest number of parameters of a linear constraint / of a parameter order
MaxLinParams == 3

_valid_linear_constraint_operators == <<"=", ">=", "<=">>

\* operators handed to the constructor: the valid ones and two invalid ones
OperatorInputs == {"=", ">=", "<=", "<", "=="}
\* coefficient and rhs values handed to the constructor
CoefficientInputs == {-1, 2}
RhsInputs == {-1, 2}
\* idx_offset values handed to to_botorch (0 is the default)
OffsetInputs == {0, 2}

\* non-empty sequences of distinct names over the first n names
DistinctNameSeqs(n) ==
    LET pool == ToSet(SubSeq(Names, 1, n))
    IN  UNION {{q \in [1..k -> pool] : \A i, j \in 1..k : i # j => q[i] # q[j]} :
                 k \in 1..n}

\* coefficient lists of length 0..n
CoefficientSeqs(n) == UNION {[1..k -> CoefficientInputs] : k \in 0..n}

\* list.index(x): the 0-based position of the first occurrence
index(list, x) ==
    (CHOOSE i \in 1..Len(list) :
        /\ list[i] = x
        /\ \A j \in 1..(i - 1) : list[j] # x) - 1

\* _validate_coefficients, a mutant: only too many coefficients are refused
validate_coefficients_too_many(parameters, coefficients) ==
    ~(Len(parameters) < Len(coefficients))

\* ContinuousLinearConstraint._validate_coefficients: TRUE iff it does not raise
validate_coefficients(parameters, coefficients) ==
    ~(Len(parameters) # Len(coefficients))

\* validator=in_(_valid_linear_constraint_operators): TRUE iff it does not raise
validate_operator(operator) ==
    operator \in ToSet(_valid_linear_constraint_operators)

\* ContinuousLinearConstraint._default_coefficients
default_coefficients(parameters) == [i \in 1..Len(parameters) |-> 1]

\* _multiplier, a mutant: "<=" is not negated
multiplier_never_negative(c) == 1

\* ContinuousLinearConstraint._multiplier
multiplier(c) == IF c.operator = "<=" THEN -1 ELSE 1

\* ContinuousLinearConstraint.is_eq
is_eq(c) == c.operator = "="

\* to_botorch: param_indices, a mutant that forgets idx_offset
param_indices_no_offset(c, param_names, idx_offset) ==
    LET kept == SelectSeq(c.parameters, LAMBDA q : q \in ToSet(param_names))
    IN  [i \in 1..Len(kept) |-> index(param_names, kept[i])]

\* to_botorch: param_indices
param_indices(c, param_names, idx_offset) ==
    LET kept == SelectSeq(c.parameters, LAMBDA q : q \in ToSet(param_names))
    IN  [i \in 1..Len(kept) |-> index(param_names, kept[i]) + idx_offset]

\* ContinuousLinearConstraint.to_botorch: (indices, coefficients, rhs)
to_botorch(c, param_names, idx_offset) ==
    [indices      |-> param_indices(c, param_names, idx_offset),
     coefficients |-> [i \in 1..Len(c.coefficients) |->
                          multiplier(c) * c.coefficients[i]],
     rhs          |-> multiplier(c) * c.rhs]

LinIdle ==
    /\ lin_args = None
    /\ lin = None
    /\ lin_error = "none"
    /\ botorch_args = None
    /\ botorch_out = None
    /\ drop_args = None
    /\ drop_out = None

\* ContinuousLinearConstraint(parameters, operator, coefficients, rhs): the
\* attrs-generated __init__ fills the fields (coefficients from its default
\* when omitted), then runs the validators in field order; a raising validator
\* leaves no object.
ConstructLinear ==
    /\ lin_args = None
    /\ \E parameters \in DistinctNameSeqs(MaxLinParams),
          operator \in OperatorInputs,
          coefficients \in {Some(cs) : cs \in CoefficientSeqs(MaxLinParams + 1)}
                             \cup {None},
          rhs \in RhsInputs :
         LET coeffs == IF coefficients = None
                       THEN default_coefficients(parameters)
                       ELSE coefficients[1]
         IN  /\ lin_args' = Some([parameters |-> parameters, operator |-> operator,
                                  coefficients |-> coefficients, rhs |-> rhs])
             /\ IF ~validate_operator(operator)
                THEN /\ lin' = None
                     /\ lin_error' = "ValueError"
                ELSE IF ~validate_coefficients(parameters, coeffs)
                THEN /\ lin' = None
                     /\ lin_error' = "ValueError"
                ELSE /\ lin' = Some([parameters |-> parameters, operator |-> operator,
                                     coefficients |-> coeffs, rhs |-> rhs])
                     /\ lin_error' = "none"
    /\ UNCHANGED <<botorch_args, botorch_out, drop_args, drop_out>>
    /\ UNCHANGED notLinVars

\* constraint.to_botorch(parameters, idx_offset)
ToBotorch ==
    /\ lin # None
    /\ botorch_args = None
    /\ drop_args = None
    /\ \E param_names \in DistinctNameSeqs(MaxLinParams), idx_offset \in OffsetInputs :
         /\ botorch_args' = Some([parameters |-> param_names, idx_offset |-> idx_offset])
         /\ botorch_out' = Some(to_botorch(lin[1], param_names, idx_offset))
    /\ UNCHANGED <<lin_args, lin, lin_error, drop_args, drop_out>>
    /\ UNCHANGED notLinVars

\* _drop_parameters, a mutant: the coefficients are cut to length, not filtered
drop_parameters_leading_coefficients(c, parameter_names) ==
    LET parameters == SelectSeq(c.parameters, LAMBDA q : q \notin parameter_names)
    IN  [parameters   |-> parameters,
         operator     |-> c.operator,
         coefficients |-> SubSeq(c.coefficients, 1, Len(parameters)),
         rhs          |-> c.rhs]

\* ContinuousLinearConstraint._drop_parameters
drop_parameters(c, parameter_names) ==
    LET keep == {i \in 1..Len(c.parameters) : c.parameters[i] \notin parameter_names}
        pos(k) == CHOOSE i \in keep : Cardinality({j \in keep : j < i}) = k - 1
    IN  [parameters   |-> [k \in 1..Cardinality(keep) |-> c.parameters[pos(k)]],
         operator     |-> c.operator,
         coefficients |-> [k \in 1..Cardinality(keep) |-> c.coefficients[pos(k)]],
         rhs          |-> c.rhs]

\* the parameter_names handed to _drop_parameters: any collection of names,
\* one of them never a parameter of the constraint
DropInputs == SUBSET ToSet(SubSeq(Names, 1, MaxLinParams + 1))

\* constraint._drop_parameters(parameter_names)
DropParameters ==
    /\ lin # None
    /\ botorch_args = None
    /\ drop_args = None
    /\ \E parameter_names \in DropInputs :
         /\ drop_args' = Some([self |-> lin[1], parameter_names |-> parameter_names])
         /\ drop_out' = Some(drop_parameters(lin[1], parameter_names))
    /\ UNCHANGED <<lin_args, lin, lin_error, botorch_args, botorch_out>>
    /\ UNCHANGED notLinVars

(***************************************************************************)
(* ContinuousCardinalityConstraint                                         *)
(***************************************************************************)

\* the constraint objects the model constructs: parameters are distinct names,
\* 0 <= min_cardinality <= max_cardinality <= len(parameters)
CardinalityConstraints(maxN) ==
    { c \in [parameters : {SubSeq(Names, 1, n) : n \in 1..maxN},
             min_cardinality : 0..maxN,
             max_cardinality : 0..maxN] :
        /\ c.min_cardinality <= c.max_cardinality
        /\ c.max_cardinality <= Len(c.parameters) }

\* ContinuousCardinalityConstraint._inactive_set_sizes, a mutant: the "+ 1" of
\* the range's end is forgotten
inactive_set_sizes_short(c) ==
    range(Len(c.parameters) - c.max_cardinality,
          Len(c.parameters) - c.min_cardinality)

\* ContinuousCardinalityConstraint._inactive_set_sizes
inactive_set_sizes(c) ==
    range(Len(c.parameters) - c.max_cardinality,
          Len(c.parameters) - c.min_cardinality + 1)

\* ContinuousCardinalityConstraint.n_inactive_parameter_combinations
n_inactive_parameter_combinations(c) ==
    LET sizes == inactive_set_sizes(c)
    IN  SumSeq([i \in 1..Len(sizes) |-> comb(Len(c.parameters), sizes[i])])

\* ContinuousCardinalityConstraint.inactive_parameter_combinations, a mutant:
\* the sizes are taken from the largest to the smallest
inactive_parameter_combinations_descending(c) ==
    LET sizes == inactive_set_sizes(c)
        n     == Len(sizes)
    IN  Chain([i \in 1..n |-> combinations(c.parameters, sizes[n + 1 - i])])

\* ContinuousCardinalityConstraint.inactive_parameter_combinations: the items
\* in the order in which the generator yields them
inactive_parameter_combinations(c) ==
    LET sizes == inactive_set_sizes(c)
    IN  Chain([i \in 1..Len(sizes) |-> combinations(c.parameters, sizes[i])])

\* sample_inactive_parameters, a mutant: every cardinality gets the same weight
n_configurations_uniform(c) ==
    LET ks == range(c.min_cardinality, c.max_cardinality + 1)
    IN  [i \in 1..Len(ks) |-> 1]

\* sample_inactive_parameters: n_configurations_per_cardinality
n_configurations_per_cardinality(c) ==
    LET ks == range(c.min_cardinality, c.max_cardinality + 1)
    IN  [i \in 1..Len(ks) |-> comb(Len(c.parameters), ks[i])]

\* sample_inactive_parameters: probabilities, as exact fractions num/den
sample_probabilities(c) ==
    LET w == n_configurations_per_cardinality(c)
    IN  [i \in 1..Len(w) |-> [num |-> w[i], den |-> SumSeq(w)]]

\* np.random.choice(values, p=p): one draw can give any value of positive
\* probability
ChoiceSupport(values, p) ==
    {values[i] : i \in {j \in 1..Len(values) : p[j].num > 0}}

\* set(np.random.choice(population, k, replace=False)): any k distinct elements
ChoiceWithoutReplacement(population, k) ==
    {S \in SUBSET ToSet(population) : Cardinality(S) = k}

\* sample_inactive_parameters, a mutant: the active count is used as the
\* number of inactive parameters
n_inactive_is_active(c, n_active) == n_active

\* sample_inactive_parameters: n_inactive_params = len(parameters) - n_active
n_inactive_of(c, n_active) == Len(c.parameters) - n_active

\* the sets one draw of sample_inactive_parameters can return, given the
\* probabilities it computed
DrawableInactiveSets(c, p) ==
    LET ks == range(c.min_cardinality, c.max_cardinality + 1)
    IN  UNION {ChoiceWithoutReplacement(c.parameters, n_inactive_of(c, k)) :
                 k \in ChoiceSupport(ks, p)}

CardIdle ==
    /\ card_op = "none"
    /\ yielded = <<>>
    /\ batch_arg = 0
    /\ probabilities = <<>>
    /\ n_active_params = <<>>
    /\ inactive_params = <<>>
    /\ iterators = <<>>

\* list(constraint.inactive_parameter_combinations())
InactiveParameterCombinations ==
    /\ card_op # "sample"
    /\ iterators = <<>>
    /\ card_op' = "combinations"
    /\ yielded' = inactive_parameter_combinations(constraint)
    /\ UNCHANGED <<constraint, batch_arg, probabilities, n_active_params,
                   inactive_params, iterators>>
    /\ UNCHANGED notCardVars

\* generators of one constraint that are alive at the same time
MaxIterators == 2

\* it = constraint.inactive_parameter_combinations(): a generator that has
\* not run yet
NewIterator ==
    /\ card_op = "none"
    /\ Len(iterators) < MaxIterators
    /\ iterators' = Append(iterators, [items |-> <<>>, done |-> FALSE])
    /\ UNCHANGED <<constraint, card_op, yielded, batch_arg, probabilities,
                   n_active_params, inactive_params>>
    /\ UNCHANGED notCardVars

\* how often next(it) has been called on a generator
calls_of(it) == Len(it.items) + (IF it.done THEN 1 ELSE 0)

\* next(it) on one of the generators: it runs to its next yield, or returns
\* (StopIteration) when its loops are over.  The generators being independent
\* objects, only the schedules in which a later generator does not overtake
\* an earlier one are explored.
NextItem ==
    /\ \E k \in 1..Len(iterators) :
         LET it    == iterators[k]
             items == inactive_parameter_combinations(constraint)
         IN  /\ ~it.done
             /\ k > 1 => calls_of(it) < calls_of(iterators[k - 1])
             /\ iterators' = [iterators EXCEPT ![k] =
                     IF Len(it.items) < Len(items)
                     THEN [it EXCEPT !.items = Append(@, items[Len(it.items) + 1])]
                     ELSE [it EXCEPT !.done = TRUE]]
    /\ UNCHANGED <<constraint, card_op, yielded, batch_arg, probabilities,
                   n_active_params, inactive_params>>
    /\ UNCHANGED notCardVars

\* the lists of sets the second stage can return for the drawn active counts:
\* one set(np.random.choice(parameters, n_inactive, replace=False)) per count
RECURSIVE InactiveDraws(_, _)
InactiveDraws(c, n_active) ==
    IF n_active = <<>> THEN {<<>>}
    ELSE {<<S>> \o rest :
            S \in ChoiceWithoutReplacement(c.parameters,
                                           n_inactive_of(c, Head(n_active))),
            rest \in InactiveDraws(c, Tail(n_active))}

\* constraint.sample_inactive_parameters(batch_size = m)
SampleInactiveParameters ==
    /\ card_op # "sample"
    /\ iterators = <<>>
    /\ \E m \in 0..MaxSamples :
         LET p  == sample_probabilities(constraint)
             ks == range(constraint.min_cardinality, constraint.max_cardinality + 1)
         IN  \E n_active \in [1..m -> ChoiceSupport(ks, p)] :
               \E sets \in InactiveDraws(constraint, n_active) :
                 /\ batch_arg' = m
                 /\ probabilities' = p
                 /\ n_active_params' = n_active
                 /\ inactive_params' = sets
    /\ card_op' = "sample"
    /\ UNCHANGED <<constraint, yielded, iterators>>
    /\ UNCHANGED notCardVars

(***************************************************************************)
(* ContinuousCardinalityConstraint.get_threshold.  relative_threshold is   *)
(* a fraction [num, den] with 0 < num < den; an Interval is [lower, upper] *)
(* of fractions over the same denominator.                                 *)
(***************************************************************************)
\* largest absolute value of a parameter bound
MaxBound == 2

\* relative_threshold values: the default 1e-2 and 1/2
RelativeThresholds == {[num |-> 1, den |-> 100], [num |-> 1, den |-> 2]}

\* (lower, upper) with lower <= upper
BoundsPairs(maxB) ==
    {b \in (-maxB..maxB) \X (-maxB..maxB) : b[1] <= b[2]}

\* the parameters handed to get_threshold: [name, lower, upper], the names
\* including one that no constraint holds
ThresholdParameters ==
    {[name |-> Names[i], lower |-> b[1], upper |-> b[2]] :
        i \in 1..(MaxCardParams + 1), b \in BoundsPairs(MaxBound)}

\* relative_threshold * v
scaled(rt, v) == [num |-> rt.num * v, den |-> rt.den]

\* get_threshold, a mutant: the parameter name is not checked
get_threshold_unchecked(c, rt, parameter) ==
    Some([lower |-> scaled(rt, parameter.lower),
          upper |-> scaled(rt, parameter.upper)])

\* get_threshold, a mutant: the interval is mirrored around the origin
get_threshold_mirrored(c, rt, parameter) ==
    IF parameter.name \notin ToSet(c.parameters)
    THEN None
    ELSE Some([lower |-> scaled(rt, -parameter.upper),
               upper |-> scaled(rt, -parameter.lower)])

\* ContinuousCardinalityConstraint.get_threshold: the Interval, or None when
\* ValueError is raised
get_threshold(c, rt, parameter) ==
    IF parameter.name \notin ToSet(c.parameters)
    THEN None
    ELSE Some([lower |-> scaled(rt, parameter.lower),
               upper |-> scaled(rt, parameter.upper)])

ThresholdIdle ==
    /\ threshold_arg = None
    /\ threshold_out = None
    /\ threshold_error = "none"

\* the threshold fields the other specifications leave untouched
NoThreshold ==
    /\ relative_threshold = [num |-> 1, den |-> 100]
    /\ ThresholdIdle

\* constraint.get_threshold(parameter)
GetThreshold ==
    /\ threshold_arg = None
    /\ \E parameter \in ThresholdParameters :
         /\ threshold_arg' = Some(parameter)
         /\ threshold_out' = get_threshold(constraint, relative_threshold, parameter)
         /\ threshold_error' =
               IF get_threshold(constraint, relative_threshold, parameter) = None
               THEN "ValueError" ELSE "none"
    /\ UNCHANGED relative_threshold
    /\ UNCHANGED notThresholdVars

(***************************************************************************)
(* activate_parameter (src/baybe/parameters/utils.py)                      *)
(* A NumericalContinuousParameter is [name, lower, upper,                  *)
(* near_zero_threshold].                                                   *)
(***************************************************************************)
\* in_inactive_range, a mutant: the edges of the inactive range are outside
in_inactive_range_open(parameter, x) ==
    /\ -parameter.near_zero_threshold < x
    /\ x < parameter.near_zero_threshold

\* in_inactive_range, a mutant: no value is in the inactive range
in_inactive_range_never(parameter, x) == FALSE

\* activate_parameter: in_inactive_range
in_inactive_range(parameter, x) ==
    /\ -parameter.near_zero_threshold <= x
    /\ x <= parameter.near_zero_threshold

\* activate_parameter, a mutant: a bound in the inactive range is moved to zero
activate_parameter_clip_to_zero(parameter) ==
    LET lower == parameter.lower
        upper == parameter.upper
    IN  IF lower < -parameter.near_zero_threshold /\ in_inactive_range(parameter, upper)
        THEN Some([parameter EXCEPT !.upper = 0])
        ELSE IF upper > parameter.near_zero_threshold /\ in_inactive_range(parameter, lower)
        THEN Some([parameter EXCEPT !.lower = 0])
        ELSE IF in_inactive_range(parameter, lower) /\ in_inactive_range(parameter, upper)
        THEN None
        ELSE Some(parameter)

\* activate_parameter, a mutant: a bound is moved whenever the other one is
\* beyond the inactive range
activate_parameter_always_clips(parameter) ==
    LET lower == parameter.lower
        upper == parameter.upper
    IN  IF lower < -parameter.near_zero_threshold /\ upper <= parameter.near_zero_threshold
        THEN Some([parameter EXCEPT !.upper = -parameter.near_zero_threshold])
        ELSE IF upper > parameter.near_zero_threshold
        THEN Some([parameter EXCEPT !.lower = parameter.near_zero_threshold])
        ELSE None

\* activate_parameter, a mutant: a parameter whose bounds are one single value
\* is refused
activate_parameter_rejects_degenerate(parameter) ==
    LET lower == parameter.lower
        upper == parameter.upper
    IN  IF lower = upper
        THEN None
        ELSE IF lower < -parameter.near_zero_threshold /\ in_inactive_range(parameter, upper)
        THEN Some([parameter EXCEPT !.upper = -parameter.near_zero_threshold])
        ELSE IF upper > parameter.near_zero_threshold /\ in_inactive_range(parameter, lower)
        THEN Some([parameter EXCEPT !.lower = parameter.near_zero_threshold])
        ELSE IF in_inactive_range(parameter, lower) /\ in_inactive_range(parameter, upper)
        THEN None
        ELSE Some(parameter)

\* activate_parameter, a mutant: only an upper bound in the inactive range is
\* moved
activate_parameter_upper_only(parameter) ==
    LET lower == parameter.lower
        upper == parameter.upper
    IN  IF lower < -parameter.near_zero_threshold /\ in_inactive_range(parameter, upper)
        THEN Some([parameter EXCEPT !.upper = -parameter.near_zero_threshold])
        ELSE IF in_inactive_range(parameter, lower) /\ in_inactive_range(parameter, upper)
        THEN None
        ELSE Some(parameter)

\* activate_parameter: the returned parameter, or None when ValueError is raised
activate_parameter(parameter) ==
    LET lower == parameter.lower
        upper == parameter.upper
    IN  IF lower < -parameter.near_zero_threshold /\ in_inactive_range(parameter, upper)
        THEN Some([parameter EXCEPT !.upper = -parameter.near_zero_threshold])
        ELSE IF upper > parameter.near_zero_threshold /\ in_inactive_range(parameter, lower)
        THEN Some([parameter EXCEPT !.lower = parameter.near_zero_threshold])
        ELSE IF in_inactive_range(parameter, lower) /\ in_inactive_range(parameter, upper)
        THEN None
        ELSE Some(parameter)

\* largest near_zero_threshold of a parameter handed to activate_parameter
MaxThreshold == 2

\* the parameters handed to activate_parameter
ActivationParameters ==
    {[name |-> "parameter", lower |-> b[1], upper |-> b[2], near_zero_threshold |-> t] :
        b \in BoundsPairs(MaxBound), t \in 0..MaxThreshold}

\* the activation variables the other specifications leave untouched
NoActivation ==
    /\ activate_arg = None
    /\ activated_parameter = None
    /\ activate_error = "none"
    /\ reactivated = None
    /\ mirror_activated = None

\* activate_parameter(parameter)
ActivateParameter ==
    /\ activate_arg # None
    /\ activated_parameter = None
    /\ activate_error = "none"
    /\ activated_parameter' = activate_parameter(activate_arg[1])
    /\ activate_error' = IF activate_parameter(activate_arg[1]) = None
                         THEN "ValueError: cannot be set active" ELSE "none"
    /\ UNCHANGED <<activate_arg, reactivated, mirror_activated>>
    /\ UNCHANGED notActivateVars

\* activate_parameter(activate_parameter(parameter))
ActivateAgain ==
    /\ activated_parameter # None
    /\ reactivated = None
    /\ reactivated' = Some(activate_parameter(activated_parameter[1]))
    /\ UNCHANGED <<activate_arg, activated_parameter, activate_error, mirror_activated>>
    /\ UNCHANGED notActivateVars

\* mirror_interval, applied to the bounds of a parameter: the bounds mirrored
\* around the origin (the dead zone [-near_zero_threshold, near_zero_threshold]
\* is its own mirror image)
mirror_interval(parameter) ==
    [parameter EXCEPT !.lower = -parameter.upper, !.upper = -parameter.lower]

\* activate_parameter on the parameter with mirrored bounds
ActivateMirrored ==
    /\ activate_arg # None
    /\ mirror_activated = None
    /\ mirror_activated' = Some(activate_parameter(mirror_interval(activate_arg[1])))
    /\ UNCHANGED <<activate_arg, activated_parameter, activate_error, reactivated>>
    /\ UNCHANGED notActivateVars

(***************************************************************************)
(* SubspaceContinuous: [parameters, constraints_lin_eq,                    *)
(* constraints_lin_ineq, constraints_cardinality].  The class is not part  *)
(* of the sources at hand; the attributes the recommender reads are        *)
(* modelled from its documented behaviour.                                 *)
(***************************************************************************)
\* SubspaceContinuous.param_names
param_names(sub) == [i \in 1..Len(sub.parameters) |-> sub.parameters[i].name]

\* SubspaceContinuous.param_bounds_comp: one (lower, upper) column per parameter
param_bounds_comp(sub) ==
    [i \in 1..Len(sub.parameters) |->
        <<sub.parameters[i].lower, sub.parameters[i].upper>>]

\* math.prod of a sequence
RECURSIVE ProdSeq(_)
ProdSeq(s) ==
    IF s = <<>> THEN 1 ELSE Head(s) * ProdSeq(Tail(s))

\* itertools.product(*iterables): tuples with one item of each iterable, the
\* last iterable varying fastest
RECURSIVE product(_)
product(iterables) ==
    IF iterables = <<>> THEN << <<>> >>
    ELSE LET rest == product(Tail(iterables))
         IN  Chain([i \in 1..Len(Head(iterables)) |->
                       PrependAll(Head(iterables)[i], rest)])

\* SubspaceContinuous.combinatorial_counts_zero_parameters
combinatorial_counts_zero_parameters(sub) ==
    ProdSeq([i \in 1..Len(sub.constraints_cardinality) |->
                n_inactive_parameter_combinations(sub.constraints_cardinality[i])])

\* SubspaceContinuous.combinatorial_zero_parameters: per configuration, one
\* inactive-parameter tuple for each cardinality constraint
combinatorial_zero_parameters(sub) ==
    Some(product([i \in 1..Len(sub.constraints_cardinality) |->
                     inactive_parameter_combinations(sub.constraints_cardinality[i])]))

\* the union of the sets of a sequence of sets
RECURSIVE UnionSeq(_)
UnionSeq(sets) ==
    IF sets = <<>> THEN {} ELSE Head(sets) \cup UnionSeq(Tail(sets))

\* SubspaceContinuous._sample_inactive_parameters(1)[0]: the sets it can
\* return, one sample_inactive_parameters draw per constraint, united
sample_inactive_parameters_of(sub) ==
    LET draws(c) == DrawableInactiveSets(c, sample_probabilities(c))
        RECURSIVE united(_)
        united(cs) ==
            IF cs = <<>> THEN {{}}
            ELSE {S \cup T : S \in draws(Head(cs)), T \in united(Tail(cs))}
    IN  united(sub.constraints_cardinality)

\* the names constrained by some cardinality constraint of the subspace
cardinality_parameters(sub) ==
    UnionSeq([i \in 1..Len(sub.constraints_cardinality) |->
                 ToSet(sub.constraints_cardinality[i].parameters)])

\* SubspaceContinuous._ensure_nonzero_parameters(inactive_parameters): a copy
\* of the subspace in which every cardinality-constrained parameter that is not
\* inactive is activated and the linear constraints lose the inactive
\* parameters; None when activate_parameter raises
ensure_nonzero_parameters(sub, inactive_parameters) ==
    LET mustActivate(q) == /\ q.name \in cardinality_parameters(sub)
                           /\ q.name \notin inactive_parameters
        activated(q) == IF mustActivate(q) THEN activate_parameter(q) ELSE Some(q)
    IN  IF \E i \in 1..Len(sub.parameters) : activated(sub.parameters[i]) = None
        THEN None
        ELSE Some([sub EXCEPT
                 !.parameters = [i \in 1..Len(sub.parameters) |->
                                    activated(sub.parameters[i])[1]],
                 !.constraints_lin_eq =
                     [i \in 1..Len(sub.constraints_lin_eq) |->
                         drop_parameters(sub.constraints_lin_eq[i], inactive_parameters)],
                 !.constraints_lin_ineq =
                     [i \in 1..Len(sub.constraints_lin_ineq) |->
                         drop_parameters(sub.constraints_lin_ineq[i], inactive_parameters)]])

(***************************************************************************)
(* Tensors.  A tensor is [shape, data]: data lists the entries along all   *)
(* dimensions in row-major order.  A tensor of optimized points keeps, in  *)
(* place of each q x d block of numbers, the number of the optimizer call  *)
(* that returned the block.                                                *)
(***************************************************************************)
\* Tensor.unsqueeze(0)
unsqueeze0(t) == [t EXCEPT !.shape = <<1>> \o t.shape]

\* torch.cat(tensors) along dimension 0
cat(tensors) ==
    [shape |-> <<SumSeq([i \in 1..Len(tensors) |-> tensors[i].shape[1]])>>
                 \o Tail(tensors[1].shape),
     data  |-> Chain([i \in 1..Len(tensors) |-> tensors[i].data])]

\* torch.argmax(t) without dim: the (0-based) index, in the flattened tensor,
\* of the first maximal entry
argmax(t) ==
    (CHOOSE i \in 1..Len(t.data) :
        /\ \A j \in 1..Len(t.data) : t.data[j] <= t.data[i]
        /\ \A j \in 1..(i - 1) : t.data[j] < t.data[i]) - 1

\* points[idx, :] on a tensor of stacked point blocks: block idx, or None when
\* idx is out of bounds for dimension 0 (IndexError)
select_block(t, idx) ==
    IF idx >= t.shape[1] THEN None
    ELSE Some([shape |-> Tail(t.shape), data |-> <<t.data[idx + 1]>>])

(***************************************************************************)
(* BotorchRecommender                                                      *)
(***************************************************************************)
N_ITER_THRESHOLD == 10

\* largest batch_size of a recommend call
MaxBatch == 2
\* acquisition values reported by the optimizer lie in 0..MaxAcq
MaxAcq == 1
\* at most MaxPeaks acquisition values of one recommend call are non-zero
MaxPeaks == 2

\* botorch.optim.optimize_acqf: the shape of the returned acquisition values.
\* A joint optimization reports one scalar, a sequential one (sequential=True
\* and q > 1) reports one value per point of the batch.
acqf_value_shape(q, sequential) ==
    IF sequential /\ q > 1 THEN <<q>> ELSE <<>>

\* the acquisition-value tensors optimize_acqf can return when `budget`
\* non-zero values are left
OptimizerValues(q, sequential, budget) ==
    LET shape == acqf_value_shape(q, sequential)
        n     == IF shape = <<>> THEN 1 ELSE shape[1]
    IN  {[shape |-> shape, data |-> v] :
            v \in {w \in [1..n -> 0..MaxAcq] :
                     Cardinality({i \in 1..n : w[i] # 0}) <= budget}}

\* fixed_parameters, a mutant: the positions are counted from 1
fixed_parameters_shifted(sub, inactive_parameters) ==
    IF sub.constraints_cardinality # <<>>
    THEN IF inactive_parameters = None
         THEN None
         ELSE LET names == param_names(sub)
                  indices_inactive_params ==
                      {index(names, names[i]) + 1 :
                          i \in {j \in 1..Len(names) : names[j] \in inactive_parameters[1]}}
              IN  Some([ind \in indices_inactive_params |-> 0])
    ELSE None

\* fixed_parameters, a mutant: no parameter is fixed
fixed_parameters_dropped(sub, inactive_parameters) == None

\* _recommend_continuous_with_inactive_parameters: fixed_parameters
fixed_parameters_of(sub, inactive_parameters) ==
    IF sub.constraints_cardinality # <<>>
    THEN IF inactive_parameters = None
         THEN None
         ELSE LET names == param_names(sub)
                  indices_inactive_params ==
                      {index(names, names[i]) :
                          i \in {j \in 1..Len(names) : names[j] \in inactive_parameters[1]}}
              IN  Some([ind \in indices_inactive_params |-> 0])
    ELSE None

\* _recommend_continuous_with_inactive_parameters: the subspace handed to the
\* optimizer, or None when _ensure_nonzero_parameters raises
optimized_subspace(sub, inactive_parameters) ==
    IF sub.constraints_cardinality # <<>>
    THEN ensure_nonzero_parameters(
             sub, IF inactive_parameters = None THEN {} ELSE inactive_parameters[1])
    ELSE Some(sub)

\* `[...] or None`
or_none(list) == IF list = <<>> THEN None ELSE Some(list)

\* _recommend_continuous_with_inactive_parameters: the keyword arguments of
\* the optimize_acqf call
optimize_acqf_arguments(sub, inactive_parameters, q, sequential) ==
    LET reduced == optimized_subspace(sub, inactive_parameters)[1]
    IN  [bounds |-> param_bounds_comp(reduced),
         q |-> q,
         fixed_features |-> fixed_parameters_of(sub, inactive_parameters),
         equality_constraints |->
             or_none([i \in 1..Len(reduced.constraints_lin_eq) |->
                 to_botorch(reduced.constraints_lin_eq[i], param_names(reduced), 0)]),
         inequality_constraints |->
             or_none([i \in 1..Len(reduced.constraints_lin_ineq) |->
                 to_botorch(reduced.constraints_lin_ineq[i], param_names(reduced), 0)]),
         sequential |-> sequential]

\* the NoMCAcquisitionFunctionError guard, a mutant: batches of two pass
needs_mc_above_two(q, mc) == q > 2 /\ ~mc

\* `batch_size > 1 and not self.acquisition_function.is_mc`
needs_mc(q, mc) == q > 1 /\ ~mc

\* the sampling branch is taken, a mutant: the threshold itself is sampled
use_sampling_at_threshold(sub) ==
    combinatorial_counts_zero_parameters(sub) >= N_ITER_THRESHOLD

\* `combinatorial_counts_zero_parameters > N_ITER_THRESHOLD`
use_sampling(sub) ==
    combinatorial_counts_zero_parameters(sub) > N_ITER_THRESHOLD

\* the inactive-parameter set of one enumerated configuration: its tuples
\* flattened into a set
flatten(inactive_params_generator) ==
    UnionSeq([i \in 1..Len(inactive_params_generator) |->
                 ToSet(inactive_params_generator[i])])

\* the parameters of the test search spaces: bounds (0, 2), inactive range
\* [-1, 1]
Parameter(name) ==
    [name |-> name, lower |-> 0, upper |-> 2, near_zero_threshold |-> 1]

\* a parameter whose bounds lie inside its inactive range
NarrowParameter(name) ==
    [name |-> name, lower |-> 0, upper |-> 1, near_zero_threshold |-> 1]

Cardinality_(parameters, lo, hi) ==
    [parameters |-> parameters, min_cardinality |-> lo, max_cardinality |-> hi]

Subspace(parameters, cardinality) ==
    [parameters |-> parameters,
     constraints_lin_eq |-> <<>>,
     constraints_lin_ineq |-> <<>>,
     constraints_cardinality |-> cardinality]

FourParameters == [i \in 1..4 |-> Parameter(Names[i])]

\* the continuous subspaces handed to recommend
Subspaces ==
    { \* no cardinality constraint, one linear equality and one inequality
      [Subspace(FourParameters, <<>>) EXCEPT
          !.constraints_lin_eq =
              <<[parameters |-> <<"x_1", "x_2">>, operator |-> "=",
                 coefficients |-> <<1, 1>>, rhs |-> 1]>>,
          !.constraints_lin_ineq =
              <<[parameters |-> <<"x_3", "x_4">>, operator |-> "<=",
                 coefficients |-> <<1, 1>>, rhs |-> 2]>>],
      \* a single configuration
      Subspace(FourParameters, <<Cardinality_(<<"x_1">>, 1, 1)>>),
      \* 3 configurations
      Subspace(FourParameters, <<Cardinality_(<<"x_1", "x_2">>, 0, 1)>>),
      \* 3 * 3 = 9 configurations of two constraints
      Subspace(FourParameters, <<Cardinality_(<<"x_1", "x_2">>, 0, 1),
                                 Cardinality_(<<"x_3", "x_4">>, 1, 2)>>),
      \* exactly N_ITER_THRESHOLD = 6 + 4 configurations
      Subspace(FourParameters, <<Cardinality_(<<"x_1", "x_2", "x_3", "x_4">>, 1, 2)>>),
      \* 11 = 6 + 4 + 1 configurations: sampled
      Subspace(FourParameters, <<Cardinality_(<<"x_1", "x_2", "x_3", "x_4">>, 0, 2)>>),
      \* x_1 cannot be activated
      Subspace([FourParameters EXCEPT ![1] = NarrowParameter("x_1")],
               <<Cardinality_(<<"x_1", "x_2">>, 1, 2)>>),
      \* no configuration at all: a constraint that asks for more non-zero
      \* parameters than it admits, which the class itself does not refuse
      Subspace(FourParameters, <<Cardinality_(<<"x_1", "x_2">>, 2, 1)>>) }

\* a dataframe of discrete candidates in computational representation: the
\* row labels (the index), the column names and the rows
Table(labels, columns, rows) == [index |-> labels, columns |-> columns, rows |-> rows]

\* the table of a call that has no discrete candidates argument
NoCandidates == Table(<<>>, <<>>, <<>>)

\* the candidate tables handed to recommend: an empty one, two candidates of
\* one column, and three candidates of which two have the same computational
\* representation; the row labels are those of the full search space
CandidateTables ==
    { Table(<<>>, <<"d_1">>, <<>>),
      Table(<<3, 7>>, <<"d_1">>, << <<0>>, <<1>> >>),
      Table(<<3, 7, 8>>, <<"d_1">>, << <<0>>, <<1>>, <<1>> >>) }

\* a row that equals no candidate: a point the optimizer did not return
\* verbatim from the candidate set
OffGrid == <<2>>

\* the rows the discrete part of a returned point can be
PointValues(candidates) == ToSet(candidates.rows) \cup {OffGrid}

\* BotorchRecommender.hybrid_sampler: the recommenders of the model are built
\* with the default
hybrid_sampler == None

\* the "index" column of pd.merge(candidates_comp.reset_index(),
\* pd.DataFrame(points, columns=candidates_comp.columns), on=columns), a
\* mutant: the rows' positions are returned, not their labels
RECURSIVE merge_index_positions(_, _)
merge_index_positions(candidates, points) ==
    IF candidates.rows = <<>> THEN <<>>
    ELSE LET n == Len(candidates.rows)
             Matches(point) == point = candidates.rows[n]
             init == [candidates EXCEPT !.index = SubSeq(@, 1, n - 1),
                                        !.rows = SubSeq(@, 1, n - 1)]
         IN  merge_index_positions(init, points)
             \o [j \in 1..Len(SelectSeq(points, Matches)) |-> n - 1]

\* the "index" column of pd.merge(candidates_comp.reset_index(),
\* pd.DataFrame(points, columns=candidates_comp.columns), on=columns): an
\* inner join, whose rows keep the order of the left table; a candidate row
\* appears once per point that equals it
RECURSIVE merge_index(_, _)
merge_index(candidates, points) ==
    IF candidates.rows = <<>> THEN <<>>
    ELSE LET Matches(point) == point = Head(candidates.rows)
             rest == [candidates EXCEPT !.index = Tail(@), !.rows = Tail(@)]
         IN  [j \in 1..Len(SelectSeq(points, Matches)) |-> Head(candidates.index)]
             \o merge_index(rest, points)

\* searchspace.discrete.exp_rep.loc[idxs]: the candidate rows with the given
\* labels, in the order of the labels
loc(candidates, idxs) ==
    [k \in 1..Len(idxs) |->
        candidates.rows[CHOOSE i \in 1..Len(candidates.index) :
                            candidates.index[i] = idxs[k]]]

NoSubspace == Subspace(<<>>, <<>>)

RecIdle ==
    /\ pc = "idle"
    /\ path = "none"
    /\ batch_size = 0
    /\ subspace = NoSubspace
    /\ candidates_comp = NoCandidates
    /\ todo = <<>>
    /\ samples_left = 0
    /\ n_calls = 0
    /\ acqf_values_all = <<>>
    /\ points_all = <<>>
    /\ optimizer_call = None
    /\ rec = None
    /\ error = "none"
    /\ peaks = 0
    /\ call_inactive_parameters = None
    /\ returned_points = None
    /\ caller_candidates = NoCandidates

\* the recommender object: its fields are set at construction
InitRecommender ==
    /\ sequential_continuous \in BOOLEAN
    /\ is_mc \in BOOLEAN
    /\ RecIdle

\* raising `exception`, a mutant: the exception is noted and the call goes on
Raise_and_continue(exception) ==
    /\ pc' = pc
    /\ error' = exception

\* recommend ends by raising `exception`
Raise(exception) ==
    /\ pc' = "error"
    /\ error' = exception

\* pd.DataFrame(points, columns=param_names)
DataFrame(points, columns) ==
    [rows |-> points.shape[1], columns |-> columns, block |-> points.data[1]]

\* the number of non-zero entries of a tensor
NonZero(t) == Cardinality({i \in 1..Len(t.data) : t.data[i] # 0})

\* the points tensor returned by the optimizer call that is being made
ReturnedPoints(arguments) ==
    [shape |-> <<arguments.q, Len(arguments.bounds)>>, data |-> <<n_calls + 1>>]

\* BotorchRecommender._recommend_continuous up to the first optimizer call:
\* the guard, then either the only optimizer call (no cardinality constraint)
\* or the choice between sampling and enumerating the configurations
RecommendContinuous ==
    /\ pc = "idle"
    /\ \E q \in 1..MaxBatch, sub \in Subspaces :
         /\ path' = "continuous"
         /\ batch_size' = q
         /\ subspace' = sub
         /\ candidates_comp' = NoCandidates
         /\ acqf_values_all' = <<>>
         /\ points_all' = <<>>
         /\ IF needs_mc(q, is_mc)
            THEN /\ Raise("NoMCAcquisitionFunctionError")
                 /\ UNCHANGED <<todo, samples_left, n_calls, optimizer_call, rec, peaks>>
            ELSE IF Len(sub.constraints_cardinality) # 0
            THEN /\ UNCHANGED <<n_calls, optimizer_call, rec, peaks>>
                 /\ IF use_sampling(sub)
                    THEN /\ pc' = "sampling"
                         /\ samples_left' = N_ITER_THRESHOLD
                         /\ UNCHANGED <<todo, error>>
                    ELSE IF combinatorial_zero_parameters(sub) # None
                    THEN /\ pc' = "enumerating"
                         /\ todo' = combinatorial_zero_parameters(sub)[1]
                         /\ UNCHANGED <<samples_left, error>>
                    ELSE /\ Raise("RuntimeError: should not be None")
                         /\ UNCHANGED <<todo, samples_left>>
            ELSE LET arguments == optimize_acqf_arguments(sub, None, q, sequential_continuous)
                 IN  /\ optimizer_call' = Some(arguments)
                     /\ n_calls' = n_calls + 1
                     /\ UNCHANGED <<todo, samples_left>>
                     /\ \/ /\ Raise("OptimizerError")
                           /\ UNCHANGED <<rec, peaks>>
                        \/ \E values \in OptimizerValues(q, sequential_continuous,
                                                         MaxPeaks - peaks) :
                             /\ rec' = Some(DataFrame(ReturnedPoints(arguments),
                                                      param_names(sub)))
                             /\ peaks' = peaks + NonZero(values)
                             /\ pc' = "done"
                             /\ UNCHANGED error
    /\ UNCHANGED <<sequential_continuous, is_mc, call_inactive_parameters,
                   returned_points, caller_candidates>>
    /\ UNCHANGED notRecVars

\* one pass of a loop body of _recommend_continuous: the call of
\* _recommend_continuous_with_inactive_parameters for one configuration and
\* the two appends.  An exception ends the call and its locals with it.
OptimizeConfiguration(inactive_params_sample) ==
    IF optimized_subspace(subspace, Some(inactive_params_sample)) = None
    THEN /\ Raise("ValueError")
         /\ acqf_values_all' = <<>>
         /\ points_all' = <<>>
         /\ UNCHANGED <<n_calls, optimizer_call, peaks, call_inactive_parameters>>
    ELSE /\ call_inactive_parameters' = Some(inactive_params_sample)
         /\ optimizer_call' = Some(optimize_acqf_arguments(
                 subspace, Some(inactive_params_sample), batch_size,
                 sequential_continuous))
         /\ n_calls' = n_calls + 1
         /\ \/ /\ Raise("OptimizerError")
               /\ acqf_values_all' = <<>>
               /\ points_all' = <<>>
               /\ UNCHANGED peaks
            \/ \E acqf_values_i \in OptimizerValues(batch_size, sequential_continuous,
                                                    MaxPeaks - peaks) :
                 /\ points_all' = Append(points_all,
                                         unsqueeze0(ReturnedPoints(optimizer_call'[1])))
                 /\ acqf_values_all' = Append(acqf_values_all,
                                              unsqueeze0(acqf_values_i))
                 /\ peaks' = peaks + NonZero(acqf_values_i)
                 /\ UNCHANGED <<pc, error>>

\* `for _ in range(N_ITER_THRESHOLD)`: one iteration on a sampled configuration
OptimizeSampled ==
    /\ pc = "sampling"
    /\ samples_left > 0
    /\ \E inactive_params_sample \in sample_inactive_parameters_of(subspace) :
         OptimizeConfiguration(inactive_params_sample)
    /\ samples_left' = samples_left - 1
    /\ UNCHANGED <<sequential_continuous, is_mc, path, batch_size, subspace,
                   candidates_comp, todo, rec, returned_points, caller_candidates>>
    /\ UNCHANGED notRecVars

\* `for inactive_params_generator in combinatorial_zero_parameters`: one
\* iteration on the next enumerated configuration
OptimizeEnumerated ==
    /\ pc = "enumerating"
    /\ todo # <<>>
    /\ OptimizeConfiguration(flatten(Head(todo)))
    /\ todo' = Tail(todo)
    /\ UNCHANGED <<sequential_continuous, is_mc, path, batch_size, subspace,
                   candidates_comp, samples_left, rec, returned_points,
                   caller_candidates>>
    /\ UNCHANGED notRecVars

\* "Find the best option" and the conversion to a dataframe
SelectBest ==
    /\ pc \in {"sampling", "enumerating"}
    /\ samples_left = 0
    /\ todo = <<>>
    /\ IF points_all = <<>>
       THEN \* torch.cat of an empty list
            /\ Raise("RuntimeError: torch.cat")
            /\ UNCHANGED rec
       ELSE LET idx    == argmax(cat(acqf_values_all))
                points == select_block(cat(points_all), idx)
            IN  IF points = None
                THEN /\ Raise("IndexError")
                     /\ UNCHANGED rec
                ELSE /\ rec' = Some(DataFrame(points[1], param_names(subspace)))
                     /\ pc' = "done"
                     /\ UNCHANGED error
    /\ UNCHANGED <<sequential_continuous, is_mc, path, batch_size, subspace,
                   candidates_comp, todo, samples_left, n_calls, acqf_values_all,
                   points_all, optimizer_call, peaks, call_inactive_parameters,
                   returned_points, caller_candidates>>
    /\ UNCHANGED notRecVars

\* BotorchRecommender._recommend_discrete: the guard, the optimize_acqf_discrete
\* call and the index of the matched candidates
RecommendDiscrete ==
    /\ pc = "idle"
    /\ \E q \in 1..MaxBatch, candidates \in CandidateTables :
         /\ path' = "discrete"
         /\ batch_size' = q
         /\ candidates_comp' = candidates
         /\ caller_candidates' = candidates
         /\ IF needs_mc(q, is_mc)
            THEN /\ Raise("NoMCAcquisitionFunctionError")
                 /\ UNCHANGED <<n_calls, rec, returned_points>>
            ELSE /\ n_calls' = n_calls + 1
                 /\ \/ /\ Raise("OptimizerError")
                       /\ UNCHANGED <<rec, returned_points>>
                    \/ /\ candidates.rows # <<>>
                       /\ \E points \in [1..q -> PointValues(candidates)] :
                            /\ returned_points' = Some(points)
                            /\ rec' = Some(merge_index(candidates, points))
                       /\ pc' = "done"
                       /\ UNCHANGED error
    /\ UNCHANGED <<sequential_continuous, is_mc, subspace, todo, samples_left,
                   acqf_values_all, points_all, optimizer_call, peaks,
                   call_inactive_parameters>>
    /\ UNCHANGED notRecVars

\* BotorchRecommender._recommend_hybrid: the guard, the preparation of the
\* discrete candidates (num_comp_columns is bound only when there are
\* candidates), the optimize_acqf_mixed call, the split of its points, the
\* match of their discrete parts and the concatenation with their continuous
\* parts.  A returned point is [disc, cont]: its discrete columns and the
\* identity of its continuous columns.
RecommendHybrid ==
    /\ pc = "idle"
    /\ \E q \in 1..MaxBatch, sub \in {s \in Subspaces : s.constraints_cardinality = <<>>},
          candidates \in CandidateTables, n_ineq \in 0..1 :
         LET num_comp_columns_bound == Len(candidates.rows) > 0
             continuous == [sub EXCEPT !.constraints_lin_ineq =
                                SubSeq(sub.constraints_lin_ineq, 1, n_ineq)]
             \* candidates_comp.columns = list(range(num_comp_columns)): the
             \* integer labels are written as strings
             renamed == [candidates EXCEPT !.columns =
                            [i \in 1..Len(candidates.columns) |-> ToString(i - 1)]]
             arguments ==
                 [q |-> q,
                  fixed_features_list |->
                      IF num_comp_columns_bound THEN Some(renamed.rows) ELSE None,
                  equality_constraints |->
                      or_none([i \in 1..Len(continuous.constraints_lin_eq) |->
                          to_botorch(continuous.constraints_lin_eq[i],
                                     param_names(continuous), Len(candidates.columns))]),
                  inequality_constraints |->
                      or_none([i \in 1..Len(continuous.constraints_lin_ineq) |->
                          to_botorch(continuous.constraints_lin_ineq[i],
                                     param_names(continuous), Len(renamed.columns))])]
         IN  /\ path' = "hybrid"
             /\ batch_size' = q
             /\ subspace' = continuous
             /\ candidates_comp' = candidates
             /\ IF needs_mc(q, is_mc)
                THEN /\ Raise("NoMCAcquisitionFunctionError")
                     /\ caller_candidates' = candidates
                     /\ UNCHANGED <<n_calls, rec, optimizer_call, returned_points>>
                ELSE /\ caller_candidates' =
                          IF num_comp_columns_bound /\ hybrid_sampler = None
                          THEN renamed ELSE candidates
                     /\ IF n_ineq > 0 /\ ~num_comp_columns_bound
                        THEN \* idx_offset=num_comp_columns while building the arguments
                             /\ Raise("UnboundLocalError")
                             /\ UNCHANGED <<n_calls, rec, optimizer_call, returned_points>>
                        ELSE /\ n_calls' = n_calls + 1
                             /\ optimizer_call' = Some(arguments)
                             /\ \/ /\ Raise("OptimizerError")
                                   /\ UNCHANGED <<rec, returned_points>>
                                \/ \E disc \in [1..q -> PointValues(candidates)] :
                                     LET points == [k \in 1..q |->
                                                       [disc |-> disc[k], cont |-> k]]
                                         idxs   == merge_index(renamed, disc)
                                     IN  /\ returned_points' = Some(points)
                                         /\ IF ~num_comp_columns_bound
                                            THEN \* points[:, :num_comp_columns]
                                                 /\ Raise("UnboundLocalError")
                                                 /\ UNCHANGED rec
                                            ELSE IF Len(idxs) # q
                                            THEN \* rec_cont_exp.index = rec_disc_exp.index
                                                 /\ Raise("ValueError: Length mismatch")
                                                 /\ UNCHANGED rec
                                            ELSE /\ rec' = Some(
                                                     [k \in 1..q |->
                                                         [index |-> idxs[k],
                                                          disc |-> loc(candidates, idxs)[k],
                                                          cont |-> points[k].cont]])
                                                 /\ pc' = "done"
                                                 /\ UNCHANGED error
    /\ UNCHANGED <<sequential_continuous, is_mc, todo, samples_left,
                   acqf_values_all, points_all, peaks, call_inactive_parameters>>
    /\ UNCHANGED notRecVars

(***************************************************************************)
(* One subproblem: _recommend_continuous_with_inactive_parameters on a     *)
(* subspace with a cardinality constraint and one of its inactive-         *)
(* parameter configurations, for a batch of one point.  Points have        *)
(* integer coordinates.                                                    *)
(***************************************************************************)
\* largest number of parameters of a subproblem's subspace
MaxSubParams == 2

\* (lower, upper) of the parameters; with near_zero_threshold 1 they reach
\* every branch of activate_parameter
BoundsInputs == {<<0, 2>>, <<-2, 2>>, <<0, 1>>, <<-2, 1>>}

\* subspaces of 1..maxN parameters with one cardinality constraint
SubproblemSubspaces(maxN) ==
    UNION {{Subspace([i \in 1..n |-> [name |-> Names[i], lower |-> b[i][1],
                                      upper |-> b[i][2], near_zero_threshold |-> 1]],
                     <<c>>) :
               b \in [1..n -> BoundsInputs], c \in CardinalityConstraints(n)} :
           n \in 1..maxN}

\* the inactive-parameter sets either loop of _recommend_continuous can pass
InactiveConfigurations(sub) ==
    LET all == combinatorial_zero_parameters(sub)[1]
    IN  {flatten(all[i]) : i \in 1..Len(all)} \cup sample_inactive_parameters_of(sub)

\* optimize_acqf, the points it can return for q = 1: within the bounds, each
\* fixed feature at its fixed value
OptimizerPoints(arguments) ==
    {x \in [1..Len(arguments.bounds) -> -2..2] :
        /\ \A i \in 1..Len(arguments.bounds) :
             \/ /\ arguments.bounds[i][1] <= x[i]
                /\ x[i] <= arguments.bounds[i][2]
             \/ /\ arguments.fixed_features # None
                /\ (i - 1) \in DOMAIN arguments.fixed_features[1]
        /\ arguments.fixed_features # None =>
             \A ind \in DOMAIN arguments.fixed_features[1] :
                x[ind + 1] = arguments.fixed_features[1][ind]}

HelperIdle ==
    /\ _inactive_parameters = None
    /\ _points = None
    /\ helper_pc = "idle"

NoHelper ==
    /\ _subspace_continuous = NoSubspace
    /\ HelperIdle

\* _recommend_continuous_with_inactive_parameters(_subspace_continuous,
\* inactive_parameters)
RecommendContinuousWithInactiveParameters ==
    /\ helper_pc = "idle"
    /\ \E inactive \in InactiveConfigurations(_subspace_continuous) :
         /\ _inactive_parameters' = Some(inactive)
         /\ IF optimized_subspace(_subspace_continuous, Some(inactive)) = None
            THEN /\ helper_pc' = "ValueError"
                 /\ UNCHANGED _points
            ELSE \E x \in OptimizerPoints(optimize_acqf_arguments(
                              _subspace_continuous, Some(inactive), 1, FALSE)) :
                   /\ _points' = Some(x)
                   /\ helper_pc' = "solved"
    /\ UNCHANGED _subspace_continuous
    /\ UNCHANGED notHelperVars

(***************************************************************************)
(* Specifications.  Each one exercises one component; the state of the     *)
(* others stays as constructed.                                            *)
(***************************************************************************)
\* the constraint object the other specifications leave untouched
NoConstraint == [parameters |-> <<>>, min_cardinality |-> 0, max_cardinality |-> 0]

\* the recommender the other specifications leave untouched
NoRecommender ==
    /\ sequential_continuous = FALSE
    /\ is_mc = FALSE
    /\ RecIdle

\* BotorchRecommender: recommend calls on a freshly constructed recommender
Init ==
    /\ InitRecommender
    /\ LinIdle
    /\ NoHelper
    /\ NoThreshold
    /\ NoActivation
    /\ constraint = NoConstraint
    /\ CardIdle

Next ==
    \/ RecommendContinuous
    \/ OptimizeSampled
    \/ OptimizeEnumerated
    \/ SelectBest
    \/ RecommendDiscrete
    \/ RecommendHybrid

Spec == Init /\ [][Next]_vars

\* ContinuousCardinalityConstraint: method calls on a constructed constraint
InitCardinality ==
    /\ constraint \in CardinalityConstraints(MaxCardParams)
    /\ CardIdle
    /\ LinIdle
    /\ NoRecommender
    /\ NoHelper
    /\ NoThreshold
    /\ NoActivation

NextCardinality ==
    \/ InactiveParameterCombinations
    \/ SampleInactiveParameters
    \/ NewIterator
    \/ NextItem

SpecCardinality == InitCardinality /\ [][NextCardinality]_vars

\* ContinuousLinearConstraint: construction and export
InitLinear ==
    /\ LinIdle
    /\ constraint = NoConstraint
    /\ CardIdle
    /\ NoRecommender
    /\ NoHelper
    /\ NoThreshold
    /\ NoActivation

NextLinear ==
    \/ ConstructLinear
    \/ ToBotorch
    \/ DropParameters

SpecLinear == InitLinear /\ [][NextLinear]_vars

\* one subproblem of a cardinality-constrained recommend call
InitSubproblem ==
    /\ _subspace_continuous \in SubproblemSubspaces(MaxSubParams)
    /\ HelperIdle
    /\ NoRecommender
    /\ LinIdle
    /\ constraint = NoConstraint
    /\ CardIdle
    /\ NoThreshold
    /\ NoActivation

NextSubproblem ==
    \/ RecommendContinuousWithInactiveParameters

SpecSubproblem == InitSubproblem /\ [][NextSubproblem]_vars

\* get_threshold calls on a constructed cardinality constraint
InitThreshold ==
    /\ constraint \in CardinalityConstraints(MaxCardParams)
    /\ relative_threshold \in RelativeThresholds
    /\ ThresholdIdle
    /\ CardIdle
    /\ LinIdle
    /\ NoRecommender
    /\ NoHelper
    /\ NoActivation

NextThreshold ==
    \/ GetThreshold

SpecThreshold == InitThreshold /\ [][NextThreshold]_vars

\* activate_parameter on a parameter, and once more on its result
InitActivate ==
    /\ activate_arg \in {Some(q) : q \in ActivationParameters}
    /\ activated_parameter = None
    /\ activate_error = "none"
    /\ reactivated = None
    /\ mirror_activated = None
    /\ constraint = NoConstraint
    /\ CardIdle
    /\ LinIdle
    /\ NoRecommender
    /\ NoHelper
    /\ NoThreshold

NextActivate ==
    \/ ActivateParameter
    \/ ActivateAgain
    \/ ActivateMirrored

SpecActivate == InitActivate /\ [][NextActivate]_vars

(***************************************************************************)
(* Claims on ContinuousCardinalityConstraint (specification                *)
(* SpecCardinality).                                                       *)
(***************************************************************************)
\* sum of C(n, k) for k in [lo, hi]
RECURSIVE BinomialSum(_, _, _)
BinomialSum(n, lo, hi) ==
    IF lo > hi THEN 0 ELSE comb(n, lo) + BinomialSum(n, lo + 1, hi)

\* C5: for a cardinality constraint over n distinct parameters with
\* min_cardinality a and max_cardinality b, inactive_parameter_combinations
\* yields exactly sum_{k=n-b}^{n-a} C(n,k) items, pairwise distinct as sets,
\* each of size in [n-b, n-a] and each holding only parameters of the
\* constraint.
C5_CombinationsCountDistinctSized ==
    card_op = "combinations" =>
        LET n == Len(constraint.parameters)
            a == constraint.min_cardinality
            b == constraint.max_cardinality
        IN  /\ Len(yielded) = BinomialSum(n, n - b, n - a)
            /\ \A i, j \in 1..Len(yielded) :
                 i # j => ToSet(yielded[i]) # ToSet(yielded[j])
            /\ \A i \in 1..Len(yielded) :
                 /\ Cardinality(ToSet(yielded[i])) >= n - b
                 /\ Cardinality(ToSet(yielded[i])) <= n - a
                 /\ Len(yielded[i]) = Cardinality(ToSet(yielded[i]))
                 /\ ToSet(yielded[i]) \subseteq ToSet(constraint.parameters)

\* C5 witness: a constraint with several admissible sizes has been enumerated
C5_Witness ==
    /\ card_op = "combinations"
    /\ Len(constraint.parameters) = 4
    /\ constraint.min_cardinality = 1
    /\ constraint.max_cardinality = 3
    /\ Len(yielded) = 14

\* C6: sample_inactive_parameters(m) returns exactly m sets, each a subset of
\* the constraint's parameters with size in [n - max_cardinality,
\* n - min_cardinality], i.e. the number of parameters left active lies in
\* [min_cardinality, max_cardinality].
C6_SampleCountAndSizes ==
    card_op = "sample" =>
        LET n == Len(constraint.parameters)
        IN  /\ Len(inactive_params) = batch_arg
            /\ \A i \in 1..Len(inactive_params) :
                 /\ inactive_params[i] \subseteq ToSet(constraint.parameters)
                 /\ Cardinality(inactive_params[i]) >= n - constraint.max_cardinality
                 /\ Cardinality(inactive_params[i]) <= n - constraint.min_cardinality
                 /\ n - Cardinality(inactive_params[i]) >= constraint.min_cardinality
                 /\ n - Cardinality(inactive_params[i]) <= constraint.max_cardinality

\* C6 witness: a batch of two sets of different sizes has been sampled
C6_Witness ==
    /\ card_op = "sample"
    /\ batch_arg = 2
    /\ Len(inactive_params) = 2
    /\ Cardinality(inactive_params[1]) # Cardinality(inactive_params[2])

\* the admissible inactive configurations of a constraint, as sets
AdmissibleInactiveSets(c) ==
    {S \in SUBSET ToSet(c.parameters) :
        /\ Len(c.parameters) - Cardinality(S) >= c.min_cardinality
        /\ Len(c.parameters) - Cardinality(S) <= c.max_cardinality}

\* C7: the weight of active count k is C(n, n-k) over the total of all
\* admissible k, so weight(k) / #(inactive subsets of size n-k) is the same
\* for every admissible k (every admissible configuration is equally likely),
\* and every admissible configuration can be drawn.
C7_WeightsProportionalToCounts ==
    card_op = "sample" =>
        LET n  == Len(constraint.parameters)
            a  == constraint.min_cardinality
            b  == constraint.max_cardinality
            nsub(k) == Cardinality(ChoiceWithoutReplacement(constraint.parameters, n - k))
        IN  /\ Len(probabilities) = b - a + 1
            /\ \A k \in a..b :
                 /\ probabilities[k - a + 1].num = comb(n, n - k)
                 /\ probabilities[k - a + 1].den = BinomialSum(n, n - b, n - a)
            \* weight(k1) / nsub(k1) = weight(k2) / nsub(k2), cross-multiplied
            /\ \A k1, k2 \in a..b :
                 probabilities[k1 - a + 1].num * nsub(k2)
                     = probabilities[k2 - a + 1].num * nsub(k1)
            /\ DrawableInactiveSets(constraint, probabilities)
                 = AdmissibleInactiveSets(constraint)

\* C7 witness: weights were computed for a constraint whose admissible
\* cardinalities have different numbers of configurations
C7_Witness ==
    /\ card_op = "sample"
    /\ Len(probabilities) >= 3
    /\ \E i, j \in 1..Len(probabilities) : probabilities[i].num # probabilities[j].num

(***************************************************************************)
(* Claims on ContinuousLinearConstraint (specification SpecLinear).        *)
(***************************************************************************)
\* C9: constructing a linear constraint fails (no object is produced) whenever
\* the number of coefficients differs from the number of parameters or the
\* operator is not one of "=", ">=", "<="; when it succeeds,
\* len(coefficients) = len(parameters), and omitted coefficients default to
\* 1.0 for every parameter.
C9_ConstructionValidates ==
    lin_args # None =>
        LET a == lin_args[1]
            mismatch == /\ a.coefficients # None
                        /\ Len(a.coefficients[1]) # Len(a.parameters)
            badOperator == a.operator \notin {"=", ">=", "<="}
        IN  /\ (mismatch \/ badOperator) => (lin = None /\ lin_error # "none")
            /\ lin # None =>
                 /\ Len(lin[1].coefficients) = Len(lin[1].parameters)
                 /\ lin[1].parameters = a.parameters
            /\ (a.coefficients = None /\ ~badOperator) =>
                 /\ lin # None
                 /\ \A i \in 1..Len(a.parameters) : lin[1].coefficients[i] = 1

\* C9 witness: a construction with a valid operator and fewer coefficients than
\* parameters has been refused
C9_Witness ==
    /\ lin_args # None
    /\ lin_args[1].operator = ">="
    /\ lin_args[1].coefficients # None
    /\ Len(lin_args[1].coefficients[1]) < Len(lin_args[1].parameters)
    /\ lin = None
    /\ lin_error = "ValueError"

\* the constrained parameters that occur in the given order, in the
\* constraint's own order
RECURSIVE PresentIn(_, _)
PresentIn(parameters, order) ==
    IF parameters = <<>> THEN <<>>
    ELSE (IF \E i \in 1..Len(order) : order[i] = Head(parameters)
          THEN <<Head(parameters)>> ELSE <<>>)
         \o PresentIn(Tail(parameters), order)

\* C10: to_botorch(parameters, idx_offset) maps each constrained parameter name
\* that occurs in the given parameter order to (its position in that order +
\* idx_offset), in the constraint's own parameter order, and drops constrained
\* parameters that do not occur in the given order without raising.
C10_IndicesArePositionsPlusOffset ==
    botorch_args # None =>
        LET order   == botorch_args[1].parameters
            offset  == botorch_args[1].idx_offset
            present == PresentIn(lin[1].parameters, order)
        IN  /\ botorch_out # None
            /\ lin_error = "none"
            /\ Len(botorch_out[1].indices) = Len(present)
            /\ \A j \in 1..Len(present) :
                 LET pos == botorch_out[1].indices[j] - offset
                 IN  /\ pos \in 0..(Len(order) - 1)
                     /\ order[pos + 1] = present[j]

\* C10 witness: an export with a non-zero offset under an order that lacks a
\* constrained parameter and lists the others in a different order
C10_Witness ==
    /\ botorch_args # None
    /\ botorch_out # None
    /\ botorch_args[1].idx_offset = 2
    /\ lin[1].parameters = <<"x_1", "x_2", "x_3">>
    /\ botorch_args[1].parameters = <<"x_3", "x_1">>
    /\ botorch_out[1].indices = <<3, 2>>

(***************************************************************************)
(* Claims on BotorchRecommender (specification Spec).                      *)
(***************************************************************************)
\* C1: in the continuous, the discrete and the hybrid path alike, a call with
\* batch_size > 1 and an acquisition function that is not Monte Carlo ends
\* with NoMCAcquisitionFunctionError, and the external optimizer has not been
\* called when the error is raised.
C1_NoMCErrorBeforeOptimizer ==
    (path \in {"continuous", "discrete", "hybrid"} /\ batch_size > 1 /\ ~is_mc) =>
        /\ pc = "error"
        /\ error = "NoMCAcquisitionFunctionError"
        /\ n_calls = 0
        /\ optimizer_call = None
        /\ rec = None

C1_Witness ==
    /\ path = "continuous"
    /\ subspace.constraints_cardinality # <<>>
    /\ batch_size = 2
    /\ ~is_mc
    /\ error = "NoMCAcquisitionFunctionError"

\* the largest entry of the recorded acquisition values
MaxRecorded(values) ==
    CHOOSE v \in 0..MaxAcq :
        /\ \E i \in 1..Len(values) : \E j \in 1..Len(values[i].data) :
             values[i].data[j] = v
        /\ \A i \in 1..Len(values) : \A j \in 1..Len(values[i].data) :
             values[i].data[j] <= v

\* the explored configuration (numbered by its optimizer call) that is the
\* first to hold the maximal recorded acquisition value
FirstBest(values) ==
    CHOOSE i \in 1..Len(values) :
        /\ \E j \in 1..Len(values[i].data) : values[i].data[j] = MaxRecorded(values)
        /\ \A k \in 1..(i - 1) : \A j \in 1..Len(values[k].data) :
             values[k].data[j] < MaxRecorded(values)

\* C2: with cardinality constraints, continuous recommend returns the point
\* set of the explored configuration whose recorded acquisition value is
\* maximal, the first explored one among several maximal ones.
C2_FirstMaximalConfiguration ==
    (path = "continuous" /\ subspace.constraints_cardinality # <<>>
        /\ pc \in {"done", "error"} /\ acqf_values_all # <<>>
        /\ samples_left = 0 /\ todo = <<>>) =>
        /\ pc = "done"
        /\ rec[1].block = FirstBest(acqf_values_all)

\* the number of inactive-parameter configurations of a subspace: the product,
\* over its cardinality constraints, of the number of admissible inactive sets
ConfigurationCount(sub) ==
    ProdSeq([i \in 1..Len(sub.constraints_cardinality) |->
        LET c == sub.constraints_cardinality[i]
            n == Len(c.parameters)
        IN  BinomialSum(n, n - c.max_cardinality, n - c.min_cardinality)])

\* C3: a successful continuous recommend has called the external optimizer
\* once when there is no cardinality constraint, once per configuration when
\* there are at most 10 configurations (the enumeration steps through all of
\* them, 10 included), and 10 times when there are more than 10 (the sampling
\* loop).
C3_OptimizerCallCount ==
    path = "continuous" =>
        /\ pc = "done" =>
             n_calls = IF subspace.constraints_cardinality = <<>> THEN 1
                       ELSE IF ConfigurationCount(subspace) <= 10
                       THEN ConfigurationCount(subspace)
                       ELSE 10
        /\ pc = "enumerating" =>
             /\ ConfigurationCount(subspace) <= 10
             /\ n_calls + Len(todo) = ConfigurationCount(subspace)
        /\ pc = "sampling" =>
             /\ ConfigurationCount(subspace) > 10
             /\ n_calls + samples_left = 10

C3_Witness ==
    /\ path = "continuous"
    /\ pc = "done"
    /\ ConfigurationCount(subspace) = 10
    /\ n_calls = 10

\* C4: for every batch_size and either setting of sequential_continuous the
\* result of continuous recommend has batch_size rows and one column per
\* continuous parameter; with cardinality constraints the index selected from
\* the recorded acquisition values lies within the explored configurations, so
\* the selection never fails and yields the batch of one configuration.
C4_BatchOfOneConfiguration ==
    path = "continuous" =>
        /\ pc = "done" =>
             /\ rec[1].rows = batch_size
             /\ Len(rec[1].columns) = Len(subspace.parameters)
             /\ rec[1].block \in 1..n_calls
        /\ error # "IndexError"

(***************************************************************************)
(* Claims on one subproblem (specification SpecSubproblem).                *)
(***************************************************************************)
\* the constrained parameters of constraint c that are non-zero in point x
NonZeroParameters(sub, c, x) ==
    {i \in 1..Len(sub.parameters) :
        sub.parameters[i].name \in ToSet(c.parameters) /\ x[i] # 0}

\* the inactive parameters are exactly zero in point x
InactiveAreZero(sub, inactive, x) ==
    \A i \in 1..Len(sub.parameters) :
        sub.parameters[i].name \in inactive => x[i] = 0

Sign(operator) == IF operator = "<=" THEN -1 ELSE 1

\* C11: for every linear constraint and every parameter order, orders lacking
\* constrained parameters included, the exported triple has as many
\* coefficients as indices, and coefficients[j] is the sign-normalised
\* coefficient of the parameter located at indices[j].
C11_CoefficientsAlignWithIndices ==
    botorch_out # None =>
        LET c     == lin[1]
            order == botorch_args[1].parameters
            off   == botorch_args[1].idx_offset
            out   == botorch_out[1]
        IN  /\ Len(out.indices) = Len(out.coefficients)
            /\ \A j \in 1..Len(out.indices) :
                 \E i \in 1..Len(c.parameters) :
                    /\ c.parameters[i] = order[out.indices[j] - off + 1]
                    /\ out.coefficients[j] = Sign(c.operator) * c.coefficients[i]

\* coordinates of the points the constraints are evaluated on
PointInputs == -2..2

\* sum(coefficients[j] * x[j])
Dot(coefficients, x) ==
    SumSeq([j \in 1..Len(coefficients) |-> coefficients[j] * x[j]])

\* the constraint as written: lhs operator rhs
Holds(lhs, operator, rhs) ==
    IF operator = "=" THEN lhs = rhs
    ELSE IF operator = ">=" THEN lhs >= rhs
    ELSE lhs <= rhs

\* C12: the exported coefficients and rhs are m times the original ones, m = -1
\* iff the operator is "<=" and +1 otherwise; multiplying by m again recovers
\* the originals; a point satisfies the original constraint iff it satisfies
\* the exported one read as "==" (operator "=") or ">=" (otherwise).
C12_SignNormalisation ==
    botorch_out # None =>
        LET c   == lin[1]
            out == botorch_out[1]
            m   == Sign(c.operator)
        IN  /\ out.coefficients = [i \in 1..Len(c.coefficients) |-> m * c.coefficients[i]]
            /\ out.rhs = m * c.rhs
            /\ [i \in 1..Len(out.coefficients) |-> m * out.coefficients[i]] = c.coefficients
            /\ m * out.rhs = c.rhs
            /\ \A x \in [1..Len(c.parameters) -> PointInputs] :
                 Holds(Dot(c.coefficients, x), c.operator, c.rhs)
                   <=> Holds(Dot(out.coefficients, x),
                             IF is_eq(c) THEN "=" ELSE ">=", out.rhs)

C12_Witness ==
    /\ botorch_out # None
    /\ lin[1].operator = "<="
    /\ lin[1].coefficients = <<2, -1>>
    /\ lin[1].rhs = 2
    /\ botorch_out[1].coefficients = <<-2, 1>>
    /\ botorch_out[1].rhs = -2

\* C13: _drop_parameters(names) returns a new constraint holding exactly the
\* original parameters not in names, in their original order, each with its
\* original coefficient, and the original operator and rhs; the original
\* constraint is unchanged and names that are no parameters of the constraint
\* have no effect.
C13_DropRemovesExactlyTheNamed ==
    drop_out # None =>
        LET c     == drop_args[1].self
            names == drop_args[1].parameter_names
            r     == drop_out[1]
        IN  /\ r.parameters = SelectSeq(c.parameters, LAMBDA q : q \notin names)
            /\ Len(r.coefficients) = Len(r.parameters)
            /\ \A k \in 1..Len(r.parameters) :
                 r.coefficients[k] = c.coefficients[index(c.parameters, r.parameters[k]) + 1]
            /\ r.operator = c.operator
            /\ r.rhs = c.rhs
            /\ lin = Some(c)
            /\ r = drop_parameters(c, names \cap ToSet(c.parameters))

C13_Witness ==
    /\ drop_out # None
    /\ drop_args[1].self.parameters = <<"x_3", "x_1", "x_2">>
    /\ drop_args[1].self.coefficients = <<2, -1, 2>>
    /\ drop_args[1].parameter_names = {"x_1", "x_4"}
    /\ drop_out[1].parameters = <<"x_3", "x_2">>
    /\ drop_out[1].coefficients = <<2, 2>>

(***************************************************************************)
(* Claims on get_threshold (specification SpecThreshold).                  *)
(***************************************************************************)
\* fraction a is at most fraction b (denominators are positive)
AtMost(a, b) == a.num * b.den <= b.num * a.den

Zero == [num |-> 0, den |-> 1]

\* C14: get_threshold(parameter) raises ValueError when parameter.name is not
\* among the constraint's parameters, and otherwise returns the interval
\* [relative_threshold * bounds.lower, relative_threshold * bounds.upper],
\* whose lower end is at most its upper end.
C14_ThresholdInterval ==
    threshold_arg # None =>
        LET q  == threshold_arg[1]
            rt == relative_threshold
        IN  IF \A i \in 1..Len(constraint.parameters) : constraint.parameters[i] # q.name
            THEN /\ threshold_out = None
                 /\ threshold_error = "ValueError"
            ELSE /\ threshold_error = "none"
                 /\ threshold_out # None
                 /\ threshold_out[1].lower.num * rt.den
                      = rt.num * q.lower * threshold_out[1].lower.den
                 /\ threshold_out[1].upper.num * rt.den
                      = rt.num * q.upper * threshold_out[1].upper.den
                 /\ AtMost(threshold_out[1].lower, threshold_out[1].upper)

C14_Witness ==
    /\ threshold_arg # None
    /\ threshold_arg[1].lower = -2
    /\ threshold_arg[1].upper = 1
    /\ relative_threshold = [num |-> 1, den |-> 2]
    /\ threshold_out = Some([lower |-> [num |-> -2, den |-> 2],
                             upper |-> [num |-> 1, den |-> 2]])

\* C15, as stated: whatever the signs of the parameter's bounds, the interval
\* returned by get_threshold contains 0.
C15_ZeroIntervalContainsZero ==
    threshold_out # None =>
        /\ AtMost(threshold_out[1].lower, Zero)
        /\ AtMost(Zero, threshold_out[1].upper)

\* C15, amended: the interval returned by get_threshold contains 0 exactly
\* when the parameter's bounds contain 0 (lower <= 0 <= upper); for bounds on
\* one side of zero the interval lies on that side.
C15_ContainsZeroIffBoundsDo ==
    threshold_out # None =>
        LET q == threshold_arg[1]
        IN  /\ (AtMost(threshold_out[1].lower, Zero) /\ AtMost(Zero, threshold_out[1].upper))
                 <=> (q.lower <= 0 /\ 0 <= q.upper)
            /\ q.lower > 0 => ~AtMost(threshold_out[1].lower, Zero)
            /\ q.upper < 0 => ~AtMost(Zero, threshold_out[1].upper)

C15_Witness ==
    /\ threshold_out # None
    /\ threshold_arg[1].lower = 0
    /\ threshold_arg[1].upper = 2
    /\ threshold_out[1].lower.num = 0
    /\ threshold_out[1].upper.num > 0

(***************************************************************************)
(* Claims on activate_parameter (specification SpecActivate).              *)
(***************************************************************************)
\* x lies in the closed dead zone [-t, t] of parameter q
InDeadZone(q, x) == -q.near_zero_threshold <= x /\ x <= q.near_zero_threshold

\* C16: activate_parameter raises a ValueError matching "cannot be set
\* active" whenever both bounds lie inside the closed dead zone, a bound on a
\* dead-zone edge counting as inside; bounds coinciding with the edges fail.
C16_BothBoundsInsideFails ==
    (activate_arg # None /\ (activated_parameter # None \/ activate_error # "none")) =>
        LET q == activate_arg[1]
        IN  (InDeadZone(q, q.lower) /\ InDeadZone(q, q.upper)) =>
                /\ activated_parameter = None
                /\ activate_error = "ValueError: cannot be set active"

C16_Witness ==
    /\ activate_arg # None
    /\ activate_arg[1].near_zero_threshold = 1
    /\ activate_arg[1].lower = -1
    /\ activate_arg[1].upper = 1
    /\ activate_error = "ValueError: cannot be set active"

C19_BoundsAndThresholdsMustCoverZero ==
    (activate_arg # None /\ (activated_parameter # None \/ activate_error # "none")) =>
        LET q == activate_arg[1]
        IN  /\ ~InDeadZone(q, 0) =>
                 /\ activated_parameter = None
                 /\ activate_error = "ValueError: thresholds must cover zero"
            /\ (InDeadZone(q, 0) /\ ~(q.lower <= 0 /\ 0 <= q.upper)) =>
                 /\ activated_parameter = None
                 /\ activate_error = "ValueError: parameter bounds must cover zero"

\* C20, as stated: whenever activate_parameter returns a parameter, the
\* returned bounds exclude zero.
C20_ReturnedBoundsExcludeZero ==
    activated_parameter # None =>
        ~(activated_parameter[1].lower <= 0 /\ 0 <= activated_parameter[1].upper)

\* C20, amended: whenever activate_parameter returns a parameter, neither of
\* its bounds lies strictly inside the dead zone; its bounds exclude zero
\* unless the given bounds contain zero and either lie on both sides of the
\* dead zone (the parameter is returned unchanged) or near_zero_threshold is 0.
C20_BoundsLeaveDeadZone ==
    activated_parameter # None =>
        LET q == activate_arg[1]
            r == activated_parameter[1]
            t == q.near_zero_threshold
        IN  /\ ~(-t < r.lower /\ r.lower < t)
            /\ ~(-t < r.upper /\ r.upper < t)
            /\ (r.lower <= 0 /\ 0 <= r.upper)
                 <=> /\ q.lower <= 0 /\ 0 <= q.upper
                     /\ (q.lower < -t /\ q.upper > t) \/ t = 0

C20_Witness ==
    /\ activated_parameter # None
    /\ activate_arg[1].near_zero_threshold = 1
    /\ activate_arg[1].lower = -1
    /\ activate_arg[1].upper = 2
    /\ activated_parameter[1].lower = 1
    /\ activated_parameter[1].upper = 2

C22_ActivationCommutesWithMirroring ==
    (mirror_activated # None /\ (activated_parameter # None \/ activate_error # "none")) =>
        /\ (mirror_activated[1] = None) <=> (activated_parameter = None)
        /\ mirror_activated[1] # None =>
              /\ mirror_activated[1][1].lower = -activated_parameter[1].upper
              /\ mirror_activated[1][1].upper = -activated_parameter[1].lower

C22_Witness ==
    /\ mirror_activated # None
    /\ mirror_activated[1] # None
    /\ activate_arg[1].near_zero_threshold = 1
    /\ activate_arg[1].lower = 0
    /\ activate_arg[1].upper = 2
    /\ activated_parameter # None
    /\ activated_parameter[1].lower = 1
    /\ mirror_activated[1][1].lower = -2
    /\ mirror_activated[1][1].upper = -1

(***************************************************************************)
(* Claims on the generator inactive_parameter_combinations (specification  *)
(* SpecCardinality).                                                       *)
(***************************************************************************)
\* the positions (from 1) that the members of a yielded item have in the
\* constraint's parameter order
PositionsOf(c, item) == [i \in 1..Len(item) |-> index(c.parameters, item[i]) + 1]

\* a comes before b in the lexicographic order of equally long tuples
LexLess(a, b) ==
    \E i \in 1..Len(a) :
        /\ a[i] < b[i]
        /\ \A j \in 1..(i - 1) : a[j] = b[j]

\* a sequence is a prefix of another one
IsPrefix(a, b) == Len(a) <= Len(b) /\ a = SubSeq(b, 1, Len(a))

\* C26: inactive_parameter_combinations is restartable and deterministic:
\* every generator yields from the beginning, whatever the other generators
\* of the same constraint have consumed, so the items of any two generators
\* agree as far as both have run; a generator ends after finitely many items,
\* all admissible combinations; each item comes after its predecessor in the
\* order by ascending size and, within one size, lexicographically by the
\* parameters' positions in the constraint.
C26_RestartableDeterministicOrder ==
    \A k \in 1..Len(iterators) :
        LET items == iterators[k].items
        IN  /\ \A l \in 1..Len(iterators) :
                   IsPrefix(items, iterators[l].items)
                   \/ IsPrefix(iterators[l].items, items)
            /\ \A i \in 1..(Len(items) - 1) :
                   \/ Len(items[i]) < Len(items[i + 1])
                   \/ /\ Len(items[i]) = Len(items[i + 1])
                      /\ LexLess(PositionsOf(constraint, items[i]),
                                 PositionsOf(constraint, items[i + 1]))
            /\ \A i \in 1..Len(items) :
                   /\ ToSet(items[i]) \subseteq ToSet(constraint.parameters)
                   /\ Len(items[i]) >= Len(constraint.parameters) - constraint.max_cardinality
                   /\ Len(items[i]) <= Len(constraint.parameters) - constraint.min_cardinality
                   /\ \A a \in 1..Len(items[i]) : \A b \in (a + 1)..Len(items[i]) :
                          PositionsOf(constraint, items[i])[a]
                              < PositionsOf(constraint, items[i])[b]
            /\ iterators[k].done =>
                   Len(items) = BinomialSum(Len(constraint.parameters),
                                            Len(constraint.parameters) - constraint.max_cardinality,
                                            Len(constraint.parameters) - constraint.min_cardinality)

\* a second generator was started after the first one had yielded items of two
\* sizes, and has yielded the first item again
C26_Witness ==
    /\ Len(iterators) = 2
    /\ Len(constraint.parameters) = 3
    /\ iterators[1].items = << <<"x_1">>, <<"x_2">>, <<"x_3">>, <<"x_1", "x_2">>,
                               <<"x_1", "x_3">> >>
    /\ ~iterators[1].done
    /\ iterators[2].items = << <<"x_1">> >>

(***************************************************************************)
(* Claims on the loops over the cardinality configurations (specification  *)
(* Spec).                                                                  *)
(***************************************************************************)
\* C27: in every optimizer call made for a cardinality configuration the
\* fixed-feature map has as keys exactly the positions (from 0, in the
\* subspace's parameter order) of the configuration's inactive parameters, each
\* mapped to 0; no active parameter is fixed; the inactive set holds, for each
\* cardinality constraint, an admissible number of that constraint's
\* parameters, and an enumerated configuration's inactive set is the union of
\* its per-constraint inactive sets.
C27_FixedFeaturesAreInactivePositions ==
    (path = "continuous" /\ subspace.constraints_cardinality # <<>>
     /\ optimizer_call # None) =>
        LET names       == param_names(subspace)
            constraints == subspace.constraints_cardinality
            inactive    == call_inactive_parameters[1]
            fixed       == optimizer_call[1].fixed_features
        IN  /\ call_inactive_parameters # None
            /\ fixed # None
            /\ DOMAIN fixed[1] = {i - 1 : i \in {j \in 1..Len(names) : names[j] \in inactive}}
            /\ \A k \in DOMAIN fixed[1] : fixed[1][k] = 0
            /\ inactive \subseteq UNION {ToSet(constraints[i].parameters) :
                                            i \in 1..Len(constraints)}
            /\ \A i \in 1..Len(constraints) :
                 LET c == constraints[i]
                     n_inactive == Cardinality(inactive \cap ToSet(c.parameters))
                 IN  /\ n_inactive >= Len(c.parameters) - c.max_cardinality
                     /\ n_inactive <= Len(c.parameters) - c.min_cardinality
            /\ ~(ConfigurationCount(subspace) > N_ITER_THRESHOLD) =>
                 LET configuration == combinatorial_zero_parameters(subspace)[1][n_calls]
                 IN  inactive = UNION {ToSet(configuration[i]) :
                                          i \in 1..Len(configuration)}

\* the call for the configuration (x_2,), (x_4,) of two constraints
C27_Witness ==
    /\ path = "continuous"
    /\ Len(subspace.constraints_cardinality) = 2
    /\ call_inactive_parameters = Some({"x_2", "x_4"})
    /\ optimizer_call # None
    /\ DOMAIN optimizer_call[1].fixed_features[1] = {1, 3}

\* C28: when the external optimizer fails for a configuration inside the
\* cardinality loop, the recommend call ends with that error in the very step
\* of the failing call: no result is returned, and after the failure no
\* optimizer call is made and nothing of the call's outcome changes.
C28_OptimizerFailureEndsTheCall ==
    [][/\ (path' = "continuous" /\ subspace'.constraints_cardinality # <<>>
           /\ error' = "OptimizerError") =>
              /\ pc' = "error"
              /\ rec' = None
              /\ error = "none" => n_calls' = n_calls + 1
       /\ (path = "continuous" /\ subspace.constraints_cardinality # <<>>
           /\ error = "OptimizerError") =>
              UNCHANGED <<n_calls, optimizer_call, call_inactive_parameters, rec,
                          error, pc>>]_vars

\* the second of three configurations failed; the third is never optimized
C28_Witness ==
    /\ path = "continuous"
    /\ subspace.constraints_cardinality # <<>>
    /\ error = "OptimizerError"
    /\ pc = "error"
    /\ n_calls = 2
    /\ Len(todo) = 1
    /\ rec = None

MatchCount(candidates, point) ==
    Cardinality({i \in 1..Len(candidates.rows) : candidates.rows[i] = point})

\* C23: in hybrid recommendation, when every returned point's discrete part
\* equals exactly one candidate row, the call succeeds, the output has one row
\* per returned point, and row k combines the discrete part and the continuous
\* part of the k-th returned point, in whichever order the points pick the
\* candidates and however often they pick the same one.
C23_RowsCombineOnePoint ==
    (path = "hybrid" /\ returned_points # None /\ candidates_comp.rows # <<>>
     /\ \A k \in 1..Len(returned_points[1]) :
            MatchCount(candidates_comp, returned_points[1][k].disc) = 1) =>
        /\ pc = "done"
        /\ rec # None
        /\ Len(rec[1]) = Len(returned_points[1])
        /\ \A k \in 1..Len(rec[1]) :
             /\ rec[1][k].disc = returned_points[1][k].disc
             /\ rec[1][k].cont = returned_points[1][k].cont

\* C24: the discrete matcher returns only labels of candidate rows that equal
\* a returned point; it raises nothing; each point contributes one label per
\* candidate row it equals, so a point that equals no row contributes none,
\* and when every point equals exactly one row there are as many labels as
\* points.
C24_MatcherReturnsLabelsOfEqualRows ==
    (path = "discrete" /\ returned_points # None) =>
        LET points == returned_points[1]
        IN  /\ pc = "done"
            /\ error = "none"
            /\ rec # None
            /\ \A k \in 1..Len(rec[1]) :
                 \E i \in 1..Len(candidates_comp.rows) :
                    /\ candidates_comp.index[i] = rec[1][k]
                    /\ \E j \in 1..Len(points) : points[j] = candidates_comp.rows[i]
            /\ Len(rec[1]) = SumSeq([j \in 1..Len(points) |->
                                        MatchCount(candidates_comp, points[j])])
            /\ (\A j \in 1..Len(points) : MatchCount(candidates_comp, points[j]) = 1) =>
                  Len(rec[1]) = Len(points)

\* of two returned points one equals no candidate row, the other the row
\* labelled 7
C24_Witness ==
    /\ path = "discrete"
    /\ pc = "done"
    /\ candidates_comp.index = <<3, 7>>
    /\ returned_points = Some(<<OffGrid, <<1>> >>)
    /\ rec = Some(<<7>>)

\* C25: a recommendation call leaves the caller's candidate table as it was
\* given: the same rows, the same index and the same column names.
C25_CandidateTableUnchanged ==
    pc \in {"done", "error"} => caller_candidates = candidates_comp

\* C30: hybrid recommendation with an empty candidate table completes without
\* an internal error: the optimizer call is made without a fixed-feature list,
\* the call ends with a result unless the optimizer itself fails, and the
\* equality and the inequality constraints are both exported with the number
\* of discrete columns as offset.
C30_EmptyCandidatesComplete ==
    (path = "hybrid" /\ candidates_comp.rows = <<>> /\ pc \in {"done", "error"}
     /\ error # "NoMCAcquisitionFunctionError") =>
        /\ error \in {"none", "OptimizerError"}
        /\ optimizer_call # None
        /\ optimizer_call[1].fixed_features_list = None
        /\ error = "none" => (pc = "done" /\ rec # None)
        /\ \A constraints \in {optimizer_call[1].equality_constraints,
                                optimizer_call[1].inequality_constraints} :
              constraints # None =>
                 \A i \in 1..Len(constraints[1]) :
                    \A j \in 1..Len(constraints[1][i].indices) :
                       constraints[1][i].indices[j] >= Len(candidates_comp.columns)

====
